---- MODULE Spec2Model ----
(***************************************************************************)
(* Barcode and loyalty core of the cafe management system                  *)
(* (src/database.py: CafeDatabase, src/app.py: scan/registration routes).  *)
(*                                                                         *)
(* Strings are sequences of one-character strings, so that formatting,     *)
(* trimming and comparison are computed, not assumed.                      *)
(***************************************************************************)
EXTENDS Integers, Sequences, FiniteSets, TLC

\* ------------------------------------------------------------------ bounds
\* Number of clients add_client may create in one behaviour.
MaxClients == 2
\* The same, where every route of the application is exercised.
SoloClients == 1
\* Rows the breakfast_visits table may hold in one behaviour.
MaxVisits == 8
\* Rows the coffee_visits table may hold in one behaviour.
MaxCoffeeVisits == 8
\* Rows the barcode_events table may hold in one behaviour.
MaxEvents == 2
\* Last calendar day the clock reaches (days are numbered from 1).
MaxDay == 3
\* Days of a calendar month (shortened, so that MaxDay days span two months).
DaysPerMonth == 2
\* Width of the id windows sampled for the code generator.
MaxSampleId == 6
\* Largest step between neighbouring digits of the sampled 12-digit payloads.
MaxPattern == 4
\* The same, for the payloads of the codes that are encoded and rendered.
MaxRenderPattern == 2
\* Clients add_client may create where the clients table itself is examined,
\* and the visits and audit entries recorded meanwhile.
RepairClients == 3
RepairVisits == 1
RepairEvents == 1
\* visits stored while a client runs through two full cycles
CycleVisits == 14
\* clients created by hand or by /start while the bot is examined
StartClients == 3

\* ------------------------------------------------------- program constants
\* Every FreeEvery-th visit is free.
FreeEvery == 7
\* Zero-padded width of the id inside the payload.
IdWidth == 9
\* Length of an EAN-13 code.
EanLength == 13
\* Largest id that f"{client_id:09d}" renders in IdWidth digits.
NineDigitMax == 10^IdWidth - 1

\* SQL NULL in a TEXT column, Python None for a row, and an absent form date
NULL == <<"NULL">>
NoClient == 0
NoDate == 0
NoChat == ""

\* ------------------------------------------------------------------ strings
DIGITS == <<"0", "1", "2", "3", "4", "5", "6", "7", "8", "9">>

DigitChars == {DIGITS[i] : i \in 1..10}

\* Characters outside ASCII are written by their code point.
\* ARABIC-INDIC DIGIT ZERO..NINE (category Nd): str.isdigit() holds of them
\* and int() reads them as 0..9
ARABIC_INDIC == <<"U+0660", "U+0661", "U+0662", "U+0663", "U+0664",
                  "U+0665", "U+0666", "U+0667", "U+0668", "U+0669">>

DecimalChars == DigitChars \cup {ARABIC_INDIC[i] : i \in 1..10}

\* SUPERSCRIPT ONE, TWO, THREE (category No, Numeric_Type=Digit):
\* str.isdigit() holds of them, int() raises ValueError
SuperscriptDigits == {"U+00B9", "U+00B2", "U+00B3"}

Whitespace == {" "}

\* int(ch) for a decimal digit character
int(ch) == (CHOOSE i \in 1..10 : DIGITS[i] = ch \/ ARABIC_INDIC[i] = ch) - 1

\* int(ch) raises ValueError for some character of s
int_raises(s) == \E i \in 1..Len(s) : s[i] \notin DecimalChars

\* str(d) for one decimal digit
DigitStr(d) == <<DIGITS[d + 1]>>

\* str.isdigit(): non-empty and every character a digit
isdigit(s) ==
    /\ Len(s) > 0
    /\ \A i \in 1..Len(s) : s[i] \in DecimalChars \cup SuperscriptDigits

\* str(n) for n >= 0: the decimal digits, most significant first
RECURSIVE DecimalStr(_)
DecimalStr(n) ==
    IF n < 10 THEN DigitStr(n) ELSE DecimalStr(n \div 10) \o DigitStr(n % 10)

\* left-pad with "0" up to a minimum width; longer strings are kept whole
RECURSIVE ZeroPad(_, _)
ZeroPad(s, width) ==
    IF Len(s) >= width THEN s ELSE ZeroPad(<<"0">> \o s, width)

\* f"{client_id:09d}"
Format09d(client_id) == ZeroPad(DecimalStr(client_id), IdWidth)

\* str.strip(): drop leading and trailing whitespace
RECURSIVE lstrip(_)
lstrip(s) ==
    IF s # <<>> /\ Head(s) \in Whitespace THEN lstrip(Tail(s)) ELSE s

RECURSIVE rstrip(_)
rstrip(s) ==
    IF s # <<>> /\ s[Len(s)] \in Whitespace
    THEN rstrip(SubSeq(s, 1, Len(s) - 1))
    ELSE s

\* barcode_value.lstrip(): trailing blanks kept
strip_leading_only(s) == lstrip(s)

strip(s) == rstrip(lstrip(s))

\* SQLite lower(): the ASCII letters A..Z are folded, nothing else
UPPERCASE == <<"A", "B", "C", "D", "E", "F", "G", "H", "I", "J", "K", "L", "M",
               "N", "O", "P", "Q", "R", "S", "T", "U", "V", "W", "X", "Y", "Z">>

LOWERCASE == <<"a", "b", "c", "d", "e", "f", "g", "h", "i", "j", "k", "l", "m",
               "n", "o", "p", "q", "r", "s", "t", "u", "v", "w", "x", "y", "z">>

lower(s) ==
    [i \in 1..Len(s) |->
        IF \E k \in 1..Len(UPPERCASE) : UPPERCASE[k] = s[i]
        THEN LOWERCASE[CHOOSE k \in 1..Len(UPPERCASE) : UPPERCASE[k] = s[i]]
        ELSE s[i]]

\* ------------------------------------------------------------ EAN-13 codes
\* sum(digits[start::2]) with 0-indexed start, positions are 1-indexed here
RECURSIVE SumEveryOther(_, _)
SumEveryOther(s, pos) ==
    IF pos > Len(s) THEN 0 ELSE int(s[pos]) + SumEveryOther(s, pos + 2)

\* total = odd_sum * 3 + even_sum
_ean13_checksum_swapped(base12) ==
    LET odd_sum == SumEveryOther(base12, 1)
        even_sum == SumEveryOther(base12, 2)
        total == odd_sum * 3 + even_sum
    IN  (10 - (total % 10)) % 10

\* total = odd_sum + even_sum * 2
_ean13_checksum_weight_two(base12) ==
    LET odd_sum == SumEveryOther(base12, 1)
        even_sum == SumEveryOther(base12, 2)
        total == odd_sum + even_sum * 2
    IN  (10 - (total % 10)) % 10

_ean13_checksum(base12) ==
    LET odd_sum == SumEveryOther(base12, 1)
        even_sum == SumEveryOther(base12, 2)
        total == odd_sum + even_sum * 3
    IN  (10 - (total % 10)) % 10

\* return len(code) == 13 and code.isdigit()
_is_valid_ean13_unchecked(code) == Len(code) = EanLength /\ isdigit(code)

_is_valid_ean13(code) ==
    IF Len(code) # EanLength \/ ~isdigit(code)
    THEN FALSE
    ELSE _ean13_checksum(SubSeq(code, 1, 12)) = int(code[Len(code)])

\* _is_valid_ean13 ends in the ValueError of int(): the checks of the first
\* line passed and some character is not a decimal digit
_is_valid_ean13_raises(code) ==
    /\ Len(code) = EanLength
    /\ isdigit(code)
    /\ int_raises(code)

_build_barcode_unpadded(client_id) ==
    LET base12 == <<"2", "9", "0">> \o DecimalStr(client_id)
    IN  base12 \o DecimalStr(_ean13_checksum(base12))

_build_barcode(client_id) ==
    LET base12 == <<"2", "9", "0">> \o Format09d(client_id)
        checksum == _ean13_checksum(base12)
    IN  base12 \o DecimalStr(checksum)

\* -------------------------------------------------------------------- state
VARIABLES
    clients,            \* table clients: id -> [name, barcode, telegram_chat_id]
    sqlite_sequence,    \* AUTOINCREMENT counter of table clients
    breakfast_visits,   \* table breakfast_visits, in insertion (id) order
    coffee_visits,      \* table coffee_visits, in insertion (id) order
    barcode_events,     \* table barcode_events, in insertion (id) order
    today,              \* the calendar day datetime.now() falls on
    response,           \* the last request handled and its outcome
    pc,                 \* per worker: the step of the request it is handling
    local,              \* per worker: the local variables of that request
    gen_ids,            \* code generator under test: the pair of ids drawn
    gen_codes,          \* code generator under test: the codes returned
    ean_input,          \* checksum and validity under test: the string passed
    ean_result,         \* checksum and validity under test: how the call ended
    render_code,        \* encoder and renderers under test: the code passed
    render_out          \* encoder and renderers under test: how the call ended

store == <<clients, sqlite_sequence, breakfast_visits, coffee_visits,
           barcode_events, today>>
workers == <<pc, local>>
ean == <<ean_input, ean_result>>
render == <<render_code, render_out>>
gen == <<gen_ids, gen_codes, ean, render>>
vars == <<store, response, workers, gen>>

Workers == {1, 2}

\* Telegram chats a card may be sent to
ChatIds == {"chat1"}

\* the name field of the form that adds a client
FormNames == {<<" ", "A", "n", "n", "a">>}

\* client ids a form may carry: ids created so far, deleted or not yet created
ClientIdInputs(limit) == 1..limit

\* dates a form may carry: absent, or any day of the calendar
DateInputs == {NoDate} \cup (1..MaxDay)

\* the codes add_client hands out to the first clients
KnownCodes(limit) == {_build_barcode(i) : i \in 1..limit}

\* what a scanner field may deliver: a code, a code with surrounding blanks,
\* a code cut short, a code with a digit appended, nothing, blanks only
RawInputs(limit) ==
    UNION {{b, <<" ">> \o b \o <<" ">>, SubSeq(b, 1, Len(b) - 1), b \o <<"0">>}
           : b \in KnownCodes(limit)}
    \cup {<<>>, <<" ">>}

IdleLocal == [client_id |-> NoClient, date |-> NoDate, total_count |-> 0,
              is_free |-> FALSE, scanned |-> FALSE]

NoResponse == [route |-> "none", outcome |-> "none", client_id |-> NoClient]

Respond(route, outcome, client_id) ==
    response' = [route |-> route, outcome |-> outcome, client_id |-> client_id]

\* ------------------------------------------------------------ table clients
get_client(client_id) ==
    IF client_id \in DOMAIN clients THEN client_id ELSE NoClient

\* SELECT * FROM clients WHERE barcode LIKE ? || '%'
get_client_by_barcode_prefix(barcode) ==
    LET rows == {id \in DOMAIN clients :
                    /\ clients[id].barcode # NULL
                    /\ Len(clients[id].barcode) >= Len(barcode)
                    /\ SubSeq(clients[id].barcode, 1, Len(barcode)) = barcode}
    IN  IF rows = {} THEN NoClient
        ELSE CHOOSE id \in rows : \A other \in rows : id <= other

\* SELECT * FROM clients WHERE barcode = ?  (fetchone)
get_client_by_barcode(barcode) ==
    LET rows == {id \in DOMAIN clients : clients[id].barcode = barcode}
    IN  IF rows = {} THEN NoClient
        ELSE CHOOSE id \in rows : \A other \in rows : id <= other

\* rowid without AUTOINCREMENT: one more than the largest id in the table
new_client_id_after_largest ==
    IF DOMAIN clients = {} THEN 1
    ELSE 1 + CHOOSE id \in DOMAIN clients : \A other \in DOMAIN clients : other <= id

\* INSERT INTO clients ...; cursor.lastrowid
new_client_id == sqlite_sequence + 1

\* add_client: the row inserted first (barcode still NULL)
inserted_client_row(name) ==
    [name |-> name, barcode |-> NULL, telegram_chat_id |-> NoChat]

\* CREATE UNIQUE INDEX idx_clients_barcode ON clients(barcode): the UPDATE that
\* gives row client_id this barcode is refused (sqlite3.IntegrityError)
violates_unique_barcode(table, client_id, barcode) ==
    \E other \in DOMAIN table \ {client_id} : table[other].barcode = barcode

\* the table after the INSERT of add_client and its commit
with_inserted_client(client_id, name) ==
    [id \in DOMAIN clients \cup {client_id} |->
        IF id = client_id THEN inserted_client_row(name) ELSE clients[id]]

\* barcode = self._build_barcode(len(clients))
add_client_numbered_by_count(name) ==
    LET client_id == new_client_id
        barcode == _build_barcode(Cardinality(DOMAIN clients) + 1)
    IN  /\ clients' = [with_inserted_client(client_id, name) EXCEPT
                          ![client_id].barcode = barcode]
        /\ sqlite_sequence' = client_id

\* the table add_client leaves behind, both commits; the second UPDATE is lost
\* when the index refuses it
clients_with_new_client(name) ==
    LET client_id == new_client_id
        barcode == _build_barcode(client_id)
        inserted == with_inserted_client(client_id, name)
    IN  IF violates_unique_barcode(inserted, client_id, barcode)
        THEN inserted
        ELSE [inserted EXCEPT ![client_id].barcode = barcode]

add_client(name) ==
    /\ clients' = clients_with_new_client(name)
    /\ sqlite_sequence' = new_client_id

add_client_raises ==
    violates_unique_barcode(clients, new_client_id,
                            _build_barcode(new_client_id))

\* add_client up to its first commit: the process ends before the UPDATE
add_client_insert_only(name) ==
    /\ clients' = with_inserted_client(new_client_id, name)
    /\ sqlite_sequence' = new_client_id

\* DELETE FROM clients WHERE id = ?  (connections never enable foreign keys,
\* so ON DELETE CASCADE removes nothing from the other tables)
delete_client(client_id) ==
    clients' = [id \in DOMAIN clients \ {client_id} |-> clients[id]]

\* UPDATE clients SET telegram_chat_id = ? WHERE id = ?
with_telegram_chat(table, client_id, chat_id) ==
    [id \in DOMAIN table |->
        IF id = client_id
        THEN [table[id] EXCEPT !.telegram_chat_id = chat_id]
        ELSE table[id]]

set_client_telegram_chat(client_id, chat_id) ==
    clients' = with_telegram_chat(clients, client_id, chat_id)

\* the lookup finds nobody, whoever is linked
get_client_by_telegram_chat_blind(chat_id) == NoClient

\* SELECT * FROM clients WHERE telegram_chat_id = ?  (fetchone)
get_client_by_telegram_chat(chat_id) ==
    LET rows == {id \in DOMAIN clients : clients[id].telegram_chat_id = chat_id}
    IN  IF rows = {} THEN NoClient
        ELSE CHOOSE id \in rows : \A other \in rows : id <= other

\* SELECT ... WHERE lower(name) = lower(?) AND (telegram_chat_id IS NULL OR
\* telegram_chat_id = '') ORDER BY id DESC LIMIT 1
find_unlinked_client_by_name(name) ==
    LET rows == {id \in DOMAIN clients :
                    /\ lower(clients[id].name) = lower(name)
                    /\ clients[id].telegram_chat_id = NoChat}
    IN  IF rows = {} THEN NoClient
        ELSE CHOOSE id \in rows : \A other \in rows : other <= id

\* _ensure_clients_barcode, the loop over the rows in rowid order: every stored
\* code that is not valid is rebuilt; an UPDATE the unique index refuses ends
\* the loop with IntegrityError
RECURSIVE repair_rows(_, _)
repair_rows(table, ids) ==
    IF ids = {} THEN [raised |-> FALSE, table |-> table]
    ELSE LET client_id == CHOOSE id \in ids : \A other \in ids : id <= other
             barcode == IF clients[client_id].barcode = NULL
                        THEN <<>> ELSE clients[client_id].barcode
             rebuilt == _build_barcode(client_id)
         IN  IF _is_valid_ean13(barcode)
             THEN repair_rows(table, ids \ {client_id})
             ELSE IF violates_unique_barcode(table, client_id, rebuilt)
             THEN [raised |-> TRUE, table |-> table]
             ELSE repair_rows([table EXCEPT ![client_id].barcode = rebuilt],
                              ids \ {client_id})

\* for index, row in enumerate(rows, 1): every row gets _build_barcode(index)
_ensure_clients_barcode_renumbering ==
    clients' = [id \in DOMAIN clients |->
                   [clients[id] EXCEPT
                       !.barcode = _build_barcode(
                           Cardinality({other \in DOMAIN clients : other <= id}))]]

\* _ensure_clients_barcode: what is committed (nothing when the loop raised)
_ensure_clients_barcode ==
    LET repaired == repair_rows(clients, DOMAIN clients)
    IN  clients' = IF repaired.raised THEN clients ELSE repaired.table

_ensure_clients_barcode_raises == repair_rows(clients, DOMAIN clients).raised

\* --------------------------------------------------- table breakfast_visits
CountRows(table, client_id) ==
    LET OfClient(row) == row.client_id = client_id
    IN  Len(SelectSeq(table, OfClient))

\* the month a day falls in (months of DaysPerMonth days)
MonthOf(date) == (date - 1) \div DaysPerMonth

\* SELECT COUNT(*) ... WHERE client_id = ? AND the visit is in this month
get_breakfast_count_month(client_id) ==
    Cardinality({i \in 1..Len(breakfast_visits) :
                    /\ breakfast_visits[i].client_id = client_id
                    /\ MonthOf(breakfast_visits[i].date) = MonthOf(today)})

\* one counter for both categories: breakfast and coffee rows of the client
get_visit_count_combined(client_id) ==
    CountRows(breakfast_visits, client_id) + CountRows(coffee_visits, client_id)

\* SELECT COUNT(*) FROM breakfast_visits WHERE client_id = ?
get_breakfast_count_total(client_id) == CountRows(breakfast_visits, client_id)

\* is_free = (total_count % 7 == 0)
visit_is_free_off_by_one(total_count) == total_count % FreeEvery = 0

\* is_free = (next_number >= 7): every visit from the seventh on is free
visit_is_free_from_seventh(total_count) ==
    LET next_number == total_count + 1
    IN  next_number >= FreeEvery

\* add_breakfast_visit: next_number = total_count + 1; next_number % 7 == 0
visit_is_free(total_count) ==
    LET next_number == total_count + 1
    IN  next_number % FreeEvery = 0

visit_row(client_id, date, is_free) ==
    [client_id |-> client_id, date |-> date, is_free |-> is_free]

\* UPDATE ... SET is_free = 0 WHERE client_id = ? before the INSERT
insert_visit_resetting(table, row) ==
    Append([i \in 1..Len(table) |->
               IF table[i].client_id = row.client_id
               THEN [table[i] EXCEPT !.is_free = FALSE] ELSE table[i]],
           row)

\* INSERT INTO breakfast_visits (client_id, date, is_free) VALUES (?, ?, ?)
insert_visit(table, row) == Append(table, row)

\* add_breakfast_visit(client_id, date) -> is_free, date already defaulted
add_breakfast_visit_is_free(client_id) ==
    visit_is_free(get_breakfast_count_total(client_id))

add_breakfast_visit(client_id, date) ==
    breakfast_visits' =
        insert_visit(breakfast_visits,
                     visit_row(client_id, date,
                               add_breakfast_visit_is_free(client_id)))

stats_until_free_zero(count) ==
    [count_total |-> count,
     count_this_month |-> count,
     visits_until_free |-> (FreeEvery - (count % FreeEvery)) % FreeEvery,
     next_is_free |-> (count % FreeEvery = FreeEvery - 1)]

\* next_is_free announced at the start of a cycle instead of before its end
stats_next_free_at_cycle_start(count) ==
    [count_total |-> count,
     count_this_month |-> count,
     visits_until_free |-> FreeEvery - (count % FreeEvery),
     next_is_free |-> (count % FreeEvery = 0)]

\* the dictionary get_client_breakfast_stats builds from the count
stats_of_count(count) ==
    LET first == FreeEvery - (count % FreeEvery)
        visits_until_free == IF first = FreeEvery /\ count > 0
                             THEN FreeEvery ELSE first
    IN  [count_total |-> count,
         count_this_month |-> count,
         visits_until_free |-> visits_until_free,
         next_is_free |-> (count % FreeEvery = FreeEvery - 1)]

get_client_breakfast_stats(client_id) ==
    stats_of_count(get_breakfast_count_total(client_id))

\* ------------------------------------------------------ table coffee_visits
get_coffee_count_total(client_id) == CountRows(coffee_visits, client_id)

add_coffee_visit_is_free(client_id) ==
    visit_is_free(get_coffee_count_total(client_id))

add_coffee_visit(client_id, date) ==
    coffee_visits' =
        insert_visit(coffee_visits,
                     visit_row(client_id, date,
                               add_coffee_visit_is_free(client_id)))

get_client_coffee_stats(client_id) ==
    stats_of_count(get_coffee_count_total(client_id))

\* ----------------------------------------------------- table barcode_events
event_row(client_id, event_type) ==
    [client_id |-> client_id, event_type |-> event_type]

log_barcode_event(client_id, event_type) ==
    barcode_events' = Append(barcode_events, event_row(client_id, event_type))


\* ------------------------------------------------------- requests, in whole
form_date(date_input) == IF date_input = NoDate THEN today ELSE date_input

\* the flash message of a registration: free, next one free, or n to go
registration_outcome(is_free, stats) ==
    IF is_free THEN "free"
    ELSE IF stats.next_is_free THEN "next_free" ELSE "recorded"

\* POST /breakfasts/register
register_breakfast(client_id, date_input) ==
    LET date == form_date(date_input)
        client == get_client(client_id)
        is_free == add_breakfast_visit_is_free(client_id)
    IN  /\ Len(breakfast_visits) < MaxVisits
        /\ add_breakfast_visit(client_id, date)
        /\ UNCHANGED <<clients, sqlite_sequence, coffee_visits, barcode_events,
                       today>>
        /\ Respond("register_breakfast",
                   IF client = NoClient THEN "error"
                   ELSE registration_outcome(
                            is_free, get_client_breakfast_stats(client_id)'),
                   client_id)

\* POST /breakfasts/scan
scan_breakfast_by_barcode(raw, date_input) ==
    LET barcode_value == strip(raw)
        date == form_date(date_input)
        client == get_client_by_barcode(barcode_value)
    IN  IF barcode_value = <<>>
        THEN /\ Respond("scan_breakfast", "empty", NoClient)
             /\ UNCHANGED store
        ELSE IF client = NoClient
        THEN /\ Respond("scan_breakfast", "not_found", NoClient)
             /\ UNCHANGED store
        ELSE /\ Len(breakfast_visits) < MaxVisits
             /\ Len(barcode_events) < MaxEvents
             /\ add_breakfast_visit(client, date)
             /\ log_barcode_event(client, "scanned")
             /\ Respond("scan_breakfast",
                        IF add_breakfast_visit_is_free(client)
                        THEN "free" ELSE "recorded",
                        client)
             /\ UNCHANGED <<clients, sqlite_sequence, coffee_visits, today>>

\* POST /coffee/register
register_coffee(client_id, date_input) ==
    LET date == form_date(date_input)
        client == get_client(client_id)
        is_free == add_coffee_visit_is_free(client_id)
    IN  /\ Len(coffee_visits) < MaxCoffeeVisits
        /\ add_coffee_visit(client_id, date)
        /\ UNCHANGED <<clients, sqlite_sequence, breakfast_visits,
                       barcode_events, today>>
        /\ Respond("register_coffee",
                   IF client = NoClient THEN "error"
                   ELSE registration_outcome(
                            is_free, get_client_coffee_stats(client_id)'),
                   client_id)

\* POST /coffee/scan
scan_coffee_by_barcode(raw, date_input) ==
    LET barcode_value == strip(raw)
        date == form_date(date_input)
        client == get_client_by_barcode(barcode_value)
    IN  IF barcode_value = <<>>
        THEN /\ Respond("scan_coffee", "empty", NoClient)
             /\ UNCHANGED store
        ELSE IF client = NoClient
        THEN /\ Respond("scan_coffee", "not_found", NoClient)
             /\ UNCHANGED store
        ELSE /\ Len(coffee_visits) < MaxCoffeeVisits
             /\ Len(barcode_events) < MaxEvents
             /\ add_coffee_visit(client, date)
             /\ log_barcode_event(client, "coffee_scanned")
             /\ Respond("scan_coffee",
                        IF add_coffee_visit_is_free(client)
                        THEN "free" ELSE "recorded",
                        client)
             /\ UNCHANGED <<clients, sqlite_sequence, breakfast_visits, today>>

\* POST /clients/add
add_client_route(limit) ==
    /\ sqlite_sequence < limit
    /\ \E raw_name \in FormNames :
          /\ strip(raw_name) # <<>>
          /\ add_client(strip(raw_name))
    /\ Respond("add_client",
               IF add_client_raises THEN "integrity_error" ELSE "added",
               new_client_id)
    /\ UNCHANGED <<breakfast_visits, coffee_visits, barcode_events, today>>

\* POST /clients/delete/<client_id>
delete_client_route(client_id) ==
    /\ IF get_client(client_id) # NoClient
       THEN delete_client(client_id)
       ELSE UNCHANGED clients
    /\ Respond("delete_client",
               IF get_client(client_id) # NoClient THEN "deleted" ELSE "none",
               client_id)
    /\ UNCHANGED <<sqlite_sequence, breakfast_visits, coffee_visits,
                   barcode_events, today>>

\* POST /clients/send-barcode/<client_id>; delivered: Telegram took the card
send_barcode_to_client_bot(client_id, chat_input, delivered) ==
    LET client == get_client(client_id)
        chat_id == IF chat_input # NoChat THEN chat_input
                   ELSE IF client # NoClient
                        THEN clients[client].telegram_chat_id ELSE NoChat
    IN  IF client = NoClient
        THEN /\ Respond("send_barcode", "not_found", client_id)
             /\ UNCHANGED store
        ELSE IF chat_id = NoChat
        THEN /\ Respond("send_barcode", "no_chat", client_id)
             /\ UNCHANGED store
        ELSE /\ set_client_telegram_chat(client_id, chat_id)
             /\ IF delivered
                THEN /\ Len(barcode_events) < MaxEvents
                     /\ log_barcode_event(client_id, "sent_to_bot")
                     /\ Respond("send_barcode", "sent", client_id)
                ELSE /\ UNCHANGED barcode_events
                     /\ Respond("send_barcode", "failed", client_id)
             /\ UNCHANGED <<sqlite_sequence, breakfast_visits, coffee_visits,
                            today>>

\* CafeDatabase(...) opened again on the same file
init_database ==
    /\ _ensure_clients_barcode
    /\ Respond("init_database",
               IF _ensure_clients_barcode_raises THEN "integrity_error"
               ELSE "done",
               NoClient)
    /\ UNCHANGED <<sqlite_sequence, breakfast_visits, coffee_visits,
                   barcode_events, today>>

\* POST /clients/add served by a process that ends inside add_client, after
\* the INSERT was committed
add_client_interrupted(limit) ==
    /\ sqlite_sequence < limit
    /\ \E raw_name \in FormNames :
          /\ strip(raw_name) # <<>>
          /\ add_client_insert_only(strip(raw_name))
    /\ Respond("add_client", "interrupted", new_client_id)
    /\ UNCHANGED <<breakfast_visits, coffee_visits, barcode_events, today>>

\* midnight
Tick ==
    /\ today < MaxDay
    /\ today' = today + 1
    /\ UNCHANGED <<clients, sqlite_sequence, breakfast_visits, coffee_visits,
                   barcode_events, response>>

\* ------------------------------------------------------ the console program
\* menu entry 4 of manage_breakfasts: the client is looked up first, a visit
\* is stored only for a client that exists
cli_register_breakfast(client_id) ==
    LET client == get_client(client_id)
        is_free == add_breakfast_visit_is_free(client_id)
    IN  IF client = NoClient
        THEN /\ Respond("cli_register_breakfast", "not_found", client_id)
             /\ UNCHANGED store
        ELSE /\ Len(breakfast_visits) < CycleVisits
             /\ add_breakfast_visit(client_id, today)
             /\ UNCHANGED <<clients, sqlite_sequence, coffee_visits,
                            barcode_events, today>>
             /\ Respond("cli_register_breakfast",
                        registration_outcome(
                            is_free, get_client_breakfast_stats(client_id)'),
                        client_id)

\* menu entry 5: get_breakfast_visits(client_id) joins the visits with the
\* clients table; total = len(visits), free_count = the rows flagged free
history_totals(client_id) ==
    LET visits == {i \in 1..Len(breakfast_visits) :
                      /\ breakfast_visits[i].client_id = client_id
                      /\ breakfast_visits[i].client_id \in DOMAIN clients}
    IN  [total |-> Cardinality(visits),
         free_count |->
             Cardinality({i \in visits : breakfast_visits[i].is_free})]

\* ----------------------------------------------------------- specifications
InitStore ==
    /\ clients = <<>>
    /\ sqlite_sequence = 0
    /\ breakfast_visits = <<>>
    /\ coffee_visits = <<>>
    /\ barcode_events = <<>>
    /\ today = 1
    /\ response = NoResponse

InitWorkers ==
    /\ pc = [w \in Workers |-> "idle"]
    /\ local = [w \in Workers |-> IdleLocal]

\* no call made yet
NoResult == [fn |-> "none", raised |-> FALSE, value |-> 0]

NoOutput == [fn |-> "none", raised |-> FALSE]

InitEanIdle ==
    /\ ean_input = <<>>
    /\ ean_result = NoResult

InitRenderIdle ==
    /\ render_code = <<>>
    /\ render_out = NoOutput

InitGenIdle ==
    /\ gen_ids = <<0, 0>>
    /\ gen_codes = <<>>
    /\ InitEanIdle
    /\ InitRenderIdle

Init == InitStore /\ InitWorkers /\ InitGenIdle

\* Breakfast loyalty: requests handled one at a time, each in whole.
Next ==
    \/ add_client_route(MaxClients) /\ UNCHANGED <<workers, gen>>
    \/ \E c \in ClientIdInputs(MaxClients) :
          register_breakfast(c, NoDate) /\ UNCHANGED <<workers, gen>>
    \/ \E raw \in RawInputs(MaxClients) :
          scan_breakfast_by_barcode(raw, NoDate) /\ UNCHANGED <<workers, gen>>

Spec == Init /\ [][Next]_vars

\* Every route of the application, one request at a time, for one client.
NextRoutes ==
    \/ add_client_route(SoloClients) /\ UNCHANGED <<workers, gen>>
    \/ \E c \in ClientIdInputs(SoloClients) :
          delete_client_route(c) /\ UNCHANGED <<workers, gen>>
    \/ \E c \in ClientIdInputs(SoloClients) :
          register_breakfast(c, NoDate) /\ UNCHANGED <<workers, gen>>
    \/ \E raw \in RawInputs(SoloClients) :
          scan_breakfast_by_barcode(raw, NoDate) /\ UNCHANGED <<workers, gen>>
    \/ \E c \in ClientIdInputs(SoloClients) :
          register_coffee(c, NoDate) /\ UNCHANGED <<workers, gen>>
    \/ \E raw \in RawInputs(SoloClients) :
          scan_coffee_by_barcode(raw, NoDate) /\ UNCHANGED <<workers, gen>>
    \/ \E c \in ClientIdInputs(SoloClients), chat \in ChatIds \cup {NoChat},
          delivered \in BOOLEAN :
          send_barcode_to_client_bot(c, chat, delivered)
          /\ UNCHANGED <<workers, gen>>
    \/ init_database /\ UNCHANGED <<workers, gen>>

SpecRoutes == Init /\ [][NextRoutes]_vars

\* Registrations with dated forms while the calendar advances.
NextDates ==
    \/ add_client_route(SoloClients) /\ UNCHANGED <<workers, gen>>
    \/ \E c \in ClientIdInputs(SoloClients), d \in DateInputs :
          register_breakfast(c, d) /\ UNCHANGED <<workers, gen>>
    \/ Tick /\ UNCHANGED <<workers, gen>>

SpecDates == Init /\ [][NextDates]_vars

\* The clients table: clients come and go, an insert may be cut short, visits
\* and audit entries are recorded, the database is opened again. The store is
\* new, or has handed out all but the last 9-digit id.
UsedIds == {0, NineDigitMax - 1}

InitClientsStore ==
    /\ clients = <<>>
    /\ sqlite_sequence \in UsedIds
    /\ breakfast_visits = <<>>
    /\ coffee_visits = <<>>
    /\ barcode_events = <<>>
    /\ today = 1
    /\ response = NoResponse
    /\ InitWorkers
    /\ InitGenIdle

\* the ids this store may hand out
IdLimit == IF sqlite_sequence <= RepairClients THEN RepairClients
           ELSE NineDigitMax - 1 + RepairClients

\* the ids a store may hand out while it is observed, and those handed out so
\* far (live or deleted): every id up to the AUTOINCREMENT counter
IdWindow == {used + k : used \in UsedIds, k \in 1..RepairClients}

HandedOut == {c \in IdWindow : c <= sqlite_sequence}

NextClients ==
    \/ add_client_route(IdLimit) /\ UNCHANGED <<workers, gen>>
    \/ add_client_interrupted(IdLimit) /\ UNCHANGED <<workers, gen>>
    \/ \E c \in DOMAIN clients \cup {sqlite_sequence + 1} :
          delete_client_route(c) /\ UNCHANGED <<workers, gen>>
    \/ \E c \in DOMAIN clients \cup {sqlite_sequence + 1} :
          /\ Len(breakfast_visits) < RepairVisits
          /\ register_breakfast(c, NoDate)
          /\ UNCHANGED <<workers, gen>>
    \/ \E c \in HandedOut :
          /\ get_client_by_barcode(_build_barcode(c)) # NoClient =>
                /\ Len(barcode_events) < RepairEvents
                /\ Len(breakfast_visits) < RepairVisits
          /\ scan_breakfast_by_barcode(_build_barcode(c), NoDate)
          /\ UNCHANGED <<workers, gen>>
    \/ \E c \in DOMAIN clients, chat \in ChatIds :
          /\ Len(barcode_events) < RepairEvents
          /\ send_barcode_to_client_bot(c, chat, TRUE)
          /\ UNCHANGED <<workers, gen>>
    \/ init_database /\ UNCHANGED <<workers, gen>>

SpecClients == InitClientsStore /\ [][NextClients]_vars

\* --------------------------------------------------- requests, step by step
\* Flask serves each request on its own thread and every CafeDatabase method
\* opens its own connection and commits: one method call is one step.
InFlight == Cardinality({w \in Workers : pc[w] # "idle"})

InFlightScans == Cardinality({w \in Workers : pc[w] # "idle" /\ local[w].scanned})

\* register_breakfast up to db.get_client(client_id)
begin_register_breakfast(w, client_id, date_input) ==
    /\ pc[w] = "idle"
    /\ Len(breakfast_visits) + InFlight < MaxVisits
    /\ local' = [local EXCEPT ![w] = [IdleLocal EXCEPT
                                         !.client_id = client_id,
                                         !.date = form_date(date_input)]]
    /\ pc' = [pc EXCEPT ![w] = "count"]
    /\ UNCHANGED <<store, response>>

\* scan_breakfast_by_barcode up to db.get_client_by_barcode(barcode_value)
begin_scan_breakfast(w, raw, date_input) ==
    LET barcode_value == strip(raw)
        client == get_client_by_barcode(barcode_value)
    IN  /\ pc[w] = "idle"
        /\ IF barcode_value = <<>>
           THEN /\ Respond("scan_breakfast", "empty", NoClient)
                /\ UNCHANGED <<pc, local>>
           ELSE IF client = NoClient
           THEN /\ Respond("scan_breakfast", "not_found", NoClient)
                /\ UNCHANGED <<pc, local>>
           ELSE /\ Len(breakfast_visits) + InFlight < MaxVisits
                /\ Len(barcode_events) + InFlightScans < MaxEvents
                /\ local' = [local EXCEPT ![w] = [IdleLocal EXCEPT
                                                     !.client_id = client,
                                                     !.date = form_date(date_input),
                                                     !.scanned = TRUE]]
                /\ pc' = [pc EXCEPT ![w] = "count"]
                /\ UNCHANGED response
        /\ UNCHANGED store

\* add_breakfast_visit: total_count = self.get_breakfast_count_total(client_id)
count_step(w) ==
    /\ pc[w] = "count"
    /\ local' = [local EXCEPT
                    ![w].total_count = get_breakfast_count_total(local[w].client_id),
                    ![w].is_free =
                        visit_is_free(get_breakfast_count_total(local[w].client_id))]
    /\ pc' = [pc EXCEPT ![w] = "insert"]
    /\ UNCHANGED <<store, response>>

\* add_breakfast_visit: the INSERT and its commit
insert_step(w) ==
    /\ pc[w] = "insert"
    /\ breakfast_visits' =
           insert_visit(breakfast_visits,
                        visit_row(local[w].client_id, local[w].date,
                                  local[w].is_free))
    /\ pc' = [pc EXCEPT ![w] = "finish"]
    /\ UNCHANGED <<clients, sqlite_sequence, coffee_visits, barcode_events,
                   today, response, local>>

\* the rest of the route: the audit entry of a scan, the flash message
finish_step(w) ==
    /\ pc[w] = "finish"
    /\ IF local[w].scanned
       THEN /\ log_barcode_event(local[w].client_id, "scanned")
            /\ Respond("scan_breakfast",
                       IF local[w].is_free THEN "free" ELSE "recorded",
                       local[w].client_id)
       ELSE /\ UNCHANGED barcode_events
            /\ Respond("register_breakfast",
                       IF get_client(local[w].client_id) = NoClient THEN "error"
                       ELSE registration_outcome(
                                local[w].is_free,
                                get_client_breakfast_stats(local[w].client_id)),
                       local[w].client_id)
    /\ pc' = [pc EXCEPT ![w] = "idle"]
    /\ local' = [local EXCEPT ![w] = IdleLocal]
    /\ UNCHANGED <<clients, sqlite_sequence, breakfast_visits, coffee_visits,
                   today>>

\* a scan that ends between db.add_breakfast_visit and the commit of
\* db.log_barcode_event: the INSERT of the audit entry raises
\* (sqlite3.OperationalError, answered with status 500) or the process stops
scan_interrupted(w) ==
    /\ pc[w] = "finish"
    /\ local[w].scanned
    /\ Respond("scan_breakfast", "server_error", local[w].client_id)
    /\ pc' = [pc EXCEPT ![w] = "idle"]
    /\ local' = [local EXCEPT ![w] = IdleLocal]
    /\ UNCHANGED store

\* Breakfast registrations and scans served by concurrent workers.
NextConc ==
    \/ add_client_route(SoloClients) /\ UNCHANGED <<workers, gen>>
    \/ \E w \in Workers, c \in ClientIdInputs(SoloClients) :
          begin_register_breakfast(w, c, NoDate) /\ UNCHANGED gen
    \/ \E w \in Workers, raw \in RawInputs(SoloClients) :
          begin_scan_breakfast(w, raw, NoDate) /\ UNCHANGED gen
    \/ \E w \in Workers : count_step(w) /\ UNCHANGED gen
    \/ \E w \in Workers : insert_step(w) /\ UNCHANGED gen
    \/ \E w \in Workers : finish_step(w) /\ UNCHANGED gen

SpecConc == Init /\ [][NextConc]_vars

\* Scans only, step by step, each of which may end before its audit entry.
NextScan ==
    \/ add_client_route(SoloClients) /\ UNCHANGED <<workers, gen>>
    \/ \E w \in Workers, raw \in RawInputs(SoloClients) :
          begin_scan_breakfast(w, raw, NoDate) /\ UNCHANGED gen
    \/ \E w \in Workers : count_step(w) /\ UNCHANGED gen
    \/ \E w \in Workers : insert_step(w) /\ UNCHANGED gen
    \/ \E w \in Workers : finish_step(w) /\ UNCHANGED gen
    \/ \E w \in Workers : scan_interrupted(w) /\ UNCHANGED gen

SpecScan == Init /\ [][NextScan]_vars

\* ----------------------------------------------------- the code generator
\* ids around every power of ten up to the 9-digit limit and beyond it
SampleIds ==
    (1..MaxSampleId)
    \cup {NineDigitMax - k : k \in 0..MaxSampleId}
    \cup {NineDigitMax + k : k \in 1..MaxSampleId}
    \cup {10, 99, 100, 12345, 99999999, 100000000, 123456789}

InitGen ==
    /\ gen_ids \in SampleIds \X SampleIds
    /\ gen_codes = <<>>
    /\ InitEanIdle
    /\ InitRenderIdle

\* _build_barcode called for each id of the pair
build_codes ==
    /\ gen_codes = <<>>
    /\ gen_codes' = <<_build_barcode(gen_ids[1]), _build_barcode(gen_ids[2])>>
    /\ UNCHANGED <<gen_ids, ean, render>>

NextGen == build_codes /\ UNCHANGED <<store, response, workers>>

InitGenerator == InitStore /\ InitWorkers /\ InitGen

SpecGen == InitGenerator /\ [][NextGen]_vars

\* ------------------------------------------------- checksum and validity
\* a 12-digit payload: first digit d0, each next digit k further on (mod 10)
Payload(d0, k) == [j \in 1..12 |-> DIGITS[((d0 + (j - 1) * k) % 10) + 1]]

PayloadSamples ==
    {Payload(d0, k) : d0 \in 0..9, k \in 0..MaxPattern}
    \cup {SubSeq(b, 1, 12) : b \in KnownCodes(MaxClients)}

\* the same digits in ARABIC-INDIC characters
ToArabicIndic(s) == [i \in 1..Len(s) |-> ARABIC_INDIC[int(s[i]) + 1]]

\* every payload with each of the ten digits in the check position
DigitCodeSamples == {p \o DigitStr(d) : p \in PayloadSamples, d \in 0..9}

\* strings that are not 13 ASCII digits: empty, too short, too long, with a
\* letter, a blank, in non-ASCII digits, in superscript digits
MalformedSamples ==
    {<<>>, <<"A">>, <<" ">>}
    \cup UNION {{SubSeq(c, 1, 12) \o <<"A">>,
                 <<"x">> \o SubSeq(c, 2, 13),
                 c \o <<"0">>,
                 SubSeq(c, 1, 11),
                 <<" ">> \o SubSeq(c, 1, 12),
                 ToArabicIndic(c),
                 SubSeq(c, 1, 12) \o <<ARABIC_INDIC[int(c[13]) + 1]>>,
                 SubSeq(c, 1, 12) \o <<"U+00B2">>,
                 <<"U+00B9">> \o SubSeq(c, 2, 13)}
                : c \in {p \o DigitStr(d) : p \in PayloadSamples, d \in 0..1}}

\* every payload with its check digit, one of the thirteen digits replaced by
\* another digit
SingleDigitErrors ==
    {[c EXCEPT ![pos] = DIGITS[d + 1]] :
        c \in {p \o DigitStr(_ean13_checksum(p)) : p \in PayloadSamples},
        pos \in 1..EanLength, d \in 0..9}

InitEan ==
    /\ ean_input \in PayloadSamples \cup DigitCodeSamples \cup MalformedSamples
                     \cup SingleDigitErrors
    /\ ean_result = NoResult

\* self._ean13_checksum(ean_input)
call_ean13_checksum ==
    /\ ean_result = NoResult
    /\ ean_result' =
          IF int_raises(ean_input)
          THEN [fn |-> "_ean13_checksum", raised |-> TRUE, value |-> 0]
          ELSE [fn |-> "_ean13_checksum", raised |-> FALSE,
                value |-> _ean13_checksum(ean_input)]
    /\ UNCHANGED ean_input

\* self._is_valid_ean13(ean_input)
call_is_valid_ean13 ==
    /\ ean_result = NoResult
    /\ ean_result' =
          IF _is_valid_ean13_raises(ean_input)
          THEN [fn |-> "_is_valid_ean13", raised |-> TRUE, value |-> FALSE]
          ELSE [fn |-> "_is_valid_ean13", raised |-> FALSE,
                value |-> _is_valid_ean13(ean_input)]
    /\ UNCHANGED ean_input

NextEan ==
    \/ call_ean13_checksum
       /\ UNCHANGED <<store, response, workers, gen_ids, gen_codes, render>>
    \/ call_is_valid_ean13
       /\ UNCHANGED <<store, response, workers, gen_ids, gen_codes, render>>

InitChecker ==
    /\ InitStore
    /\ InitWorkers
    /\ gen_ids = <<0, 0>>
    /\ gen_codes = <<>>
    /\ InitEan
    /\ InitRenderIdle

SpecEan == InitChecker /\ [][NextEan]_vars

\* ------------------------------------------------------ encoder, renderers
l_codes ==
    ("0" :> <<"0", "0", "0", "1", "1", "0", "1">>)
    @@ ("1" :> <<"0", "0", "1", "1", "0", "0", "1">>)
    @@ ("2" :> <<"0", "0", "1", "0", "0", "1", "1">>)
    @@ ("3" :> <<"0", "1", "1", "1", "1", "0", "1">>)
    @@ ("4" :> <<"0", "1", "0", "0", "0", "1", "1">>)
    @@ ("5" :> <<"0", "1", "1", "0", "0", "0", "1">>)
    @@ ("6" :> <<"0", "1", "0", "1", "1", "1", "1">>)
    @@ ("7" :> <<"0", "1", "1", "1", "0", "1", "1">>)
    @@ ("8" :> <<"0", "1", "1", "0", "1", "1", "1">>)
    @@ ("9" :> <<"0", "0", "0", "1", "0", "1", "1">>)

g_codes ==
    ("0" :> <<"0", "1", "0", "0", "1", "1", "1">>)
    @@ ("1" :> <<"0", "1", "1", "0", "0", "1", "1">>)
    @@ ("2" :> <<"0", "0", "1", "1", "0", "1", "1">>)
    @@ ("3" :> <<"0", "1", "0", "0", "0", "0", "1">>)
    @@ ("4" :> <<"0", "0", "1", "1", "1", "0", "1">>)
    @@ ("5" :> <<"0", "1", "1", "1", "0", "0", "1">>)
    @@ ("6" :> <<"0", "0", "0", "0", "1", "0", "1">>)
    @@ ("7" :> <<"0", "0", "1", "0", "0", "0", "1">>)
    @@ ("8" :> <<"0", "0", "0", "1", "0", "0", "1">>)
    @@ ("9" :> <<"0", "0", "1", "0", "1", "1", "1">>)

\* r_codes with "5": "1001100" (one module of the digit 5 mistyped)
r_codes_typo ==
    ("0" :> <<"1", "1", "1", "0", "0", "1", "0">>)
    @@ ("1" :> <<"1", "1", "0", "0", "1", "1", "0">>)
    @@ ("2" :> <<"1", "1", "0", "1", "1", "0", "0">>)
    @@ ("3" :> <<"1", "0", "0", "0", "0", "1", "0">>)
    @@ ("4" :> <<"1", "0", "1", "1", "1", "0", "0">>)
    @@ ("5" :> <<"1", "0", "0", "1", "1", "0", "0">>)
    @@ ("6" :> <<"1", "0", "1", "0", "0", "0", "0">>)
    @@ ("7" :> <<"1", "0", "0", "0", "1", "0", "0">>)
    @@ ("8" :> <<"1", "0", "0", "1", "0", "0", "0">>)
    @@ ("9" :> <<"1", "1", "1", "0", "1", "0", "0">>)

r_codes ==
    ("0" :> <<"1", "1", "1", "0", "0", "1", "0">>)
    @@ ("1" :> <<"1", "1", "0", "0", "1", "1", "0">>)
    @@ ("2" :> <<"1", "1", "0", "1", "1", "0", "0">>)
    @@ ("3" :> <<"1", "0", "0", "0", "0", "1", "0">>)
    @@ ("4" :> <<"1", "0", "1", "1", "1", "0", "0">>)
    @@ ("5" :> <<"1", "0", "0", "1", "1", "1", "0">>)
    @@ ("6" :> <<"1", "0", "1", "0", "0", "0", "0">>)
    @@ ("7" :> <<"1", "0", "0", "0", "1", "0", "0">>)
    @@ ("8" :> <<"1", "0", "0", "1", "0", "0", "0">>)
    @@ ("9" :> <<"1", "1", "1", "0", "1", "0", "0">>)

parity ==
    ("0" :> <<"L", "L", "L", "L", "L", "L">>)
    @@ ("1" :> <<"L", "L", "G", "L", "G", "G">>)
    @@ ("2" :> <<"L", "L", "G", "G", "L", "G">>)
    @@ ("3" :> <<"L", "L", "G", "G", "G", "L">>)
    @@ ("4" :> <<"L", "G", "L", "L", "G", "G">>)
    @@ ("5" :> <<"L", "G", "G", "L", "L", "G">>)
    @@ ("6" :> <<"L", "G", "G", "G", "L", "L">>)
    @@ ("7" :> <<"L", "G", "L", "G", "L", "G">>)
    @@ ("8" :> <<"L", "G", "L", "G", "G", "L">>)
    @@ ("9" :> <<"L", "G", "G", "L", "G", "L">>)

\* "".join(...) of a sequence of strings
RECURSIVE join(_)
join(parts) == IF parts = <<>> THEN <<>> ELSE Head(parts) \o join(Tail(parts))

\* how build_ean13_bits ends: the ValueError of its own check, the KeyError of
\* a table lookup (a digit str.isdigit accepts that is no key), or a result
build_ean13_bits_error(barcode_value) ==
    IF Len(barcode_value) # 13 \/ ~isdigit(barcode_value) THEN "ValueError"
    ELSE IF \E i \in 1..13 : barcode_value[i] \notin DOMAIN l_codes
    THEN "KeyError"
    ELSE "none"

\* left_bits += l_codes[d]  (the parity pattern is not consulted)
build_ean13_bits_all_l(barcode_value) ==
    LET left_digits == SubSeq(barcode_value, 2, 7)
        right_digits == SubSeq(barcode_value, 8, 13)
        left_bits == join([i \in 1..6 |-> l_codes[left_digits[i]]])
        right_bits == join([i \in 1..6 |-> r_codes[right_digits[i]]])
    IN  <<"1", "0", "1">> \o left_bits \o <<"0", "1", "0", "1", "0">>
        \o right_bits \o <<"1", "0", "1">>

\* the bit string build_ean13_bits returns when it raises nothing
build_ean13_bits(barcode_value) ==
    LET first == barcode_value[1]
        left_digits == SubSeq(barcode_value, 2, 7)
        right_digits == SubSeq(barcode_value, 8, 13)
        pattern == parity[first]
        left_bits == join([i \in 1..6 |->
                              IF pattern[i] = "L" THEN l_codes[left_digits[i]]
                              ELSE g_codes[left_digits[i]]])
        right_bits == join([i \in 1..6 |-> r_codes[right_digits[i]]])
    IN  <<"1", "0", "1">> \o left_bits \o <<"0", "1", "0", "1", "0">>
        \o right_bits \o <<"1", "0", "1">>

\* generate_barcode_png: module, quiet, height, bar_top, bar_height
png_module == 4
png_quiet == 12
png_height == 220
bar_top == 12
bar_height == 180

\* one raw scanline: the filter byte 0, then three colour bytes per pixel
png_row(bits, width, y, quiet) ==
    LET in_bar_y == bar_top <= y /\ y < bar_top + bar_height
        color(x) ==
            LET module_x == (x \div png_module) - quiet
                is_black == /\ in_bar_y
                            /\ 0 <= module_x
                            /\ module_x < Len(bits)
                            /\ bits[module_x + 1] = "1"
            IN  IF is_black THEN 0 ELSE 255
    IN  [k \in 1..(1 + 3 * width) |->
            IF k = 1 THEN 0 ELSE color((k - 2) \div 3)]

\* the image generate_barcode_png describes: the IHDR fields and the raw
\* scanlines that go, deflated, into IDAT
png_image(bits, quiet) ==
    LET width == (Len(bits) + quiet * 2) * png_module
    IN  [width |-> width,
         height |-> png_height,
         bit_depth |-> 8,
         color_type |-> 2,
         rows |-> [r \in 1..png_height |-> png_row(bits, width, r - 1, quiet)]]

\* module_x = x // module  (the quiet zone is not subtracted)
generate_barcode_png_no_quiet(barcode_value) ==
    png_image(build_ean13_bits(barcode_value), 0)

generate_barcode_png(barcode_value) ==
    png_image(build_ean13_bits(barcode_value), png_quiet)

\* generate_barcode_svg: module, quiet, height, text_h
svg_module == 2
svg_quiet == 10
svg_height == 96
text_h == 18

\* <rect x=".." y="0" width=".." height=".." fill="#000"/>
svg_rect(x) ==
    [x |-> x, y |-> 0, width |-> svg_module, height |-> svg_height,
     fill |-> "#000"]

\* the loop over enumerate(bits), from 0-indexed bit i on
RECURSIVE svg_bars(_, _, _)
svg_bars(bits, i, quiet) ==
    IF i >= Len(bits) THEN <<>>
    ELSE (IF bits[i + 1] = "1"
          THEN <<svg_rect((quiet + i) * svg_module)>> ELSE <<>>)
         \o svg_bars(bits, i + 1, quiet)

svg_document(barcode_value, bits, quiet) ==
    LET width == (Len(bits) + svg_quiet * 2) * svg_module
    IN  [width |-> width,
         height |-> svg_height + text_h,
         background |-> [width |-> width, height |-> svg_height + text_h,
                         fill |-> "#fff"],
         bars |-> svg_bars(bits, 0, quiet),
         text |-> [x |-> width \div 2, y |-> svg_height + 14,
                   anchor |-> "middle", content |-> barcode_value]]

\* x = i * module  (the quiet zone is not added)
generate_barcode_svg_no_quiet(barcode_value) ==
    svg_document(barcode_value, build_ean13_bits(barcode_value), 0)

generate_barcode_svg(barcode_value) ==
    svg_document(barcode_value, build_ean13_bits(barcode_value), svg_quiet)

\* codes handed to the encoder and the renderers: valid ones with every first
\* digit, the same with the check digit one too high, and malformed strings
RenderPayloads ==
    {Payload(d0, k) : d0 \in 0..9, k \in 1..MaxRenderPattern}
    \cup {SubSeq(b, 1, 12) : b \in KnownCodes(MaxClients)}

ValidRenderCodes == {p \o DigitStr(_ean13_checksum(p)) : p \in RenderPayloads}

WrongCheckCodes ==
    {p \o DigitStr((_ean13_checksum(p) + 1) % 10) : p \in RenderPayloads}

MalformedRenderCodes ==
    {<<>>}
    \cup UNION {{SubSeq(c, 1, 12), c \o <<"0">>,
                 SubSeq(c, 1, 12) \o <<"A">>,
                 ToArabicIndic(c),
                 SubSeq(c, 1, 12) \o <<"U+00B2">>}
                : c \in KnownCodes(MaxClients)}

InitRender ==
    /\ render_code \in ValidRenderCodes \cup WrongCheckCodes
                       \cup MalformedRenderCodes
    /\ render_out = NoOutput

\* what a caller of fn gets: the exception of build_ean13_bits, or the result
Outcome(fn, barcode_value, result) ==
    IF build_ean13_bits_error(barcode_value) # "none"
    THEN [fn |-> fn, raised |-> TRUE,
          error |-> build_ean13_bits_error(barcode_value)]
    ELSE [fn |-> fn, raised |-> FALSE, result |-> result]

call_build_ean13_bits ==
    /\ render_out = NoOutput
    /\ render_out' =
          IF build_ean13_bits_error(render_code) # "none"
          THEN Outcome("build_ean13_bits", render_code, <<>>)
          ELSE Outcome("build_ean13_bits", render_code,
                       build_ean13_bits(render_code))
    /\ UNCHANGED render_code

call_generate_barcode_png ==
    /\ render_out = NoOutput
    /\ render_out' =
          IF build_ean13_bits_error(render_code) # "none"
          THEN Outcome("generate_barcode_png", render_code, <<>>)
          ELSE Outcome("generate_barcode_png", render_code,
                       generate_barcode_png(render_code))
    /\ UNCHANGED render_code

call_generate_barcode_svg ==
    /\ render_out = NoOutput
    /\ render_out' =
          IF build_ean13_bits_error(render_code) # "none"
          THEN Outcome("generate_barcode_svg", render_code, <<>>)
          ELSE Outcome("generate_barcode_svg", render_code,
                       generate_barcode_svg(render_code))
    /\ UNCHANGED render_code

NextRender ==
    \/ call_build_ean13_bits
       /\ UNCHANGED <<store, response, workers, gen_ids, gen_codes, ean>>
    \/ call_generate_barcode_png
       /\ UNCHANGED <<store, response, workers, gen_ids, gen_codes, ean>>
    \/ call_generate_barcode_svg
       /\ UNCHANGED <<store, response, workers, gen_ids, gen_codes, ean>>

InitRenderer ==
    /\ InitStore
    /\ InitWorkers
    /\ gen_ids = <<0, 0>>
    /\ gen_codes = <<>>
    /\ InitEanIdle
    /\ InitRender

SpecRender == InitRenderer /\ [][NextRender]_vars

\* The console program registering visits over two full cycles of a client.
NextCycle ==
    \/ add_client_route(MaxClients) /\ UNCHANGED <<workers, gen>>
    \/ \E c \in ClientIdInputs(MaxClients) :
          cli_register_breakfast(c) /\ UNCHANGED <<workers, gen>>

SpecCycle == Init /\ [][NextCycle]_vars

\* --------------------------------------------------------- the Telegram bot
\* chats that send /start, and what the sender's profile carries
StartChats == {"chat1", "chat2"}

FirstNames == {<<>>, <<"A", "N", "N", "A">>}

Usernames == {<<>>, <<"b", "o", "b">>}

\* f"Клиент {chat_id}"
default_client_name(chat_id) ==
    <<"U+041A", "U+043B", "U+0438", "U+0435", "U+043D", "U+0442", " ", chat_id>>

\* first_name, else @username, else the name made of the chat id
start_client_name(chat_id, first_name, username) ==
    IF strip(first_name) # <<>> THEN strip(first_name)
    ELSE IF strip(username) # <<>> THEN <<"@">> \o strip(username)
    ELSE default_client_name(chat_id)

\* send_client_card_to_telegram ends in an exception: generate_barcode_png
\* turns the stored code down, or Telegram does not take the message
send_client_card_raises(barcode, delivered) ==
    build_ean13_bits_error(barcode) # "none" \/ ~delivered

\* POST /telegram/webhook with a message whose text starts with /start;
\* delivered: the outgoing calls to Telegram succeed.  Every exception is
\* caught and answered with ok.
telegram_webhook_start(limit, chat_id, first_name, username, delivered) ==
    LET existing == get_client_by_telegram_chat(chat_id)
        client_name == start_client_name(chat_id, first_name, username)
        candidate == find_unlinked_client_by_name(client_name)
        client_id == IF candidate # NoClient THEN candidate ELSE new_client_id
        raised == candidate = NoClient /\ add_client_raises
        table == IF candidate # NoClient THEN clients
                 ELSE clients_with_new_client(client_name)
        linked == with_telegram_chat(table, client_id, chat_id)
    IN  IF chat_id = NoChat
        THEN /\ Respond("telegram_webhook", "ignored", NoClient)
             /\ UNCHANGED store
        ELSE IF existing # NoClient
        THEN /\ Respond("telegram_start",
                        IF send_client_card_raises(clients[existing].barcode,
                                                   delivered)
                        THEN "failed" ELSE "card_sent",
                        existing)
             /\ UNCHANGED store
        ELSE /\ candidate = NoClient => sqlite_sequence < limit
             /\ clients' = IF raised THEN table ELSE linked
             /\ sqlite_sequence' = IF candidate # NoClient THEN sqlite_sequence
                                   ELSE new_client_id
             /\ IF raised THEN UNCHANGED barcode_events
                ELSE log_barcode_event(client_id, "bot_linked")
             /\ Respond("telegram_start",
                        IF raised \/ send_client_card_raises(
                                         linked[client_id].barcode, delivered)
                        THEN "failed"
                        ELSE IF candidate # NoClient THEN "linked"
                        ELSE "created",
                        client_id)
             /\ UNCHANGED <<breakfast_visits, coffee_visits, today>>

\* /start deliveries handled one after another, next to clients added by hand.
NextTelegram ==
    \/ add_client_route(StartClients) /\ UNCHANGED <<workers, gen>>
    \/ \E chat_id \in StartChats \cup {NoChat}, first_name \in FirstNames,
          username \in Usernames, delivered \in BOOLEAN :
          /\ telegram_webhook_start(StartClients, chat_id, first_name,
                                    username, delivered)
          /\ UNCHANGED <<workers, gen>>

SpecTelegram == Init /\ [][NextTelegram]_vars

\* ================================================================== claims
\* rows of `table` before row i that belong to the same client as row i
PriorOfSameClient(table, i) ==
    Cardinality({j \in 1..(i - 1) : table[j].client_id = table[i].client_id})

\* rows of `table` that belong to client c
RowsOf(table, c) == Cardinality({i \in 1..Len(table) : table[i].client_id = c})

\* every row's flag is the every-7th rule applied to its ordinal for its client
FlagsFollowOrdinals(table) ==
    \A i \in 1..Len(table) :
        table[i].is_free <=> ((PriorOfSameClient(table, i) + 1) % FreeEvery = 0)

\* C1: with registrations and scans handled one after another, the visit a
\* client gets when n visits of that client are stored takes ordinal n + 1 and
\* is free exactly when (n + 1) mod 7 = 0; a fresh client's first seven visits
\* are flagged F,F,F,F,F,F,T.
C1_OrdinalDecidesFree ==
    /\ FlagsFollowOrdinals(breakfast_visits)
    /\ \A c \in ClientIdInputs(MaxClients) :
          LET mine == {i \in 1..Len(breakfast_visits) :
                          breakfast_visits[i].client_id = c}
              free == {i \in mine : breakfast_visits[i].is_free}
          IN  /\ Cardinality(mine) < FreeEvery => free = {}
              /\ Cardinality(mine) >= FreeEvery =>
                    \E i \in free :
                        PriorOfSameClient(breakfast_visits, i) = FreeEvery - 1

\* a client got a seventh, free visit while another client's visits and a scan
\* were recorded in between
C1_Witness ==
    \E c \in DOMAIN clients :
        /\ RowsOf(breakfast_visits, c) = FreeEvery
        /\ \E i \in 1..Len(breakfast_visits) :
              /\ breakfast_visits[i].client_id = c
              /\ breakfast_visits[i].is_free
              /\ \E j \in 1..(i - 1) : breakfast_visits[j].client_id # c
        /\ \E e \in 1..Len(barcode_events) : barcode_events[e].client_id = c

\* C3: get_client_breakfast_stats of a client with n visits reports
\* count_total = n, visits_until_free = 7 - (n mod 7), which lies in 1..7 and is
\* 7 (never 0) at n = 0 and at every multiple of 7, and next_is_free exactly
\* when n mod 7 = 6.
C3_StatsOfCount ==
    \A c \in ClientIdInputs(MaxClients) :
        LET n == RowsOf(breakfast_visits, c)
            stats == get_client_breakfast_stats(c)
        IN  /\ stats.count_total = n
            /\ stats.visits_until_free = FreeEvery - (n % FreeEvery)
            /\ stats.visits_until_free \in 1..FreeEvery
            /\ n % FreeEvery = 0 => stats.visits_until_free = FreeEvery
            /\ stats.next_is_free <=> (n % FreeEvery = FreeEvery - 1)
            /\ n = FreeEvery - 1 =>
                  stats.next_is_free /\ stats.visits_until_free = 1
            /\ n = 0 => ~stats.next_is_free

\* one client stands at seven visits (a full cycle) and another at six
C3_Witness ==
    \E c \in DOMAIN clients :
        /\ RowsOf(breakfast_visits, c) = FreeEvery
        /\ get_client_breakfast_stats(c).visits_until_free = FreeEvery
        /\ ~get_client_breakfast_stats(c).next_is_free

\* C2 (as claimed): with registrations of one client served concurrently, the
\* ordinals given to the client's visits are 1..N in insertion order, so the
\* k-th inserted visit is free exactly when k mod 7 = 0.
C2_GaplessOrdinals == FlagsFollowOrdinals(breakfast_visits)

\* C4: the loyalty count is the number of all visits ever recorded for the
\* client; a registration raises it by exactly 1 whatever date it carries, and
\* neither a dated registration nor the calendar moving on lowers it or
\* changes which ordinal is free.
C4_Step ==
    /\ \A c \in ClientIdInputs(SoloClients) :
          /\ get_breakfast_count_total(c) = RowsOf(breakfast_visits, c)
          /\ get_breakfast_count_total(c)' >= get_breakfast_count_total(c)
          /\ get_client_breakfast_stats(c)'.count_total
                >= get_client_breakfast_stats(c).count_total
          /\ today' # today =>
                get_breakfast_count_total(c)' = get_breakfast_count_total(c)
    /\ Len(breakfast_visits') # Len(breakfast_visits) =>
          /\ Len(breakfast_visits') = Len(breakfast_visits) + 1
          /\ FlagsFollowOrdinals(breakfast_visits')
          /\ \E c \in ClientIdInputs(SoloClients) :
                LET row == breakfast_visits'[Len(breakfast_visits')]
                IN  /\ row.client_id = c
                    /\ get_breakfast_count_total(c)'
                          = get_breakfast_count_total(c) + 1
                    /\ row.is_free <=>
                          ((RowsOf(breakfast_visits, c) + 1) % FreeEvery = 0)

C5_Step ==
    /\ \A i \in 1..Len(breakfast_visits) :
          /\ i <= Len(breakfast_visits')
          /\ breakfast_visits'[i].is_free = breakfast_visits[i].is_free
          /\ breakfast_visits'[i].client_id = breakfast_visits[i].client_id
    /\ \A i \in 1..Len(coffee_visits) :
          /\ i <= Len(coffee_visits')
          /\ coffee_visits'[i].is_free = coffee_visits[i].is_free
          /\ coffee_visits'[i].client_id = coffee_visits[i].client_id

C5_FlagsNeverRewritten == [][C5_Step]_vars

\* a free visit is stored, a later visit followed it, a scan and a Telegram
\* delivery were logged, and init_database has just run again
C5_Witness ==
    /\ \E i \in 1..Len(breakfast_visits) :
          breakfast_visits[i].is_free /\ i < Len(breakfast_visits)
    /\ \E e \in 1..Len(barcode_events) :
          barcode_events[e].event_type = "sent_to_bot"
    /\ \E e \in 1..Len(barcode_events) :
          barcode_events[e].event_type = "scanned"
    /\ response.route = "init_database"

\* C6: breakfast and coffee are counted apart: a coffee registration or scan
\* leaves the breakfast table, count and stats as they were, a breakfast one
\* leaves the coffee side as it was, and each new row's flag follows the
\* every-7th rule on the count of its own table only.
C6_Step ==
    /\ coffee_visits' # coffee_visits =>
          /\ breakfast_visits' = breakfast_visits
          /\ \A c \in ClientIdInputs(SoloClients) :
                get_client_breakfast_stats(c)' = get_client_breakfast_stats(c)
          /\ LET row == coffee_visits'[Len(coffee_visits')]
             IN  /\ Len(coffee_visits') = Len(coffee_visits) + 1
                 /\ row.is_free <=>
                       ((RowsOf(coffee_visits, row.client_id) + 1) % FreeEvery = 0)
    /\ breakfast_visits' # breakfast_visits =>
          /\ coffee_visits' = coffee_visits
          /\ \A c \in ClientIdInputs(SoloClients) :
                get_client_coffee_stats(c)' = get_client_coffee_stats(c)
          /\ LET row == breakfast_visits'[Len(breakfast_visits')]
             IN  /\ Len(breakfast_visits') = Len(breakfast_visits) + 1
                 /\ row.is_free <=>
                       ((RowsOf(breakfast_visits, row.client_id) + 1) % FreeEvery = 0)
    /\ response'.route \in {"register_coffee", "scan_coffee"} =>
          breakfast_visits' = breakfast_visits
    /\ response'.route \in {"register_breakfast", "scan_breakfast"} =>
          coffee_visits' = coffee_visits

C6_CategoriesIsolated == [][C6_Step]_vars

\* a client holds seven breakfasts and three coffees: the seventh breakfast is
\* free, no coffee is, and both kinds of scan were logged
C6_Witness ==
    /\ Len(breakfast_visits) = FreeEvery
    /\ breakfast_visits[FreeEvery].is_free
    /\ Len(coffee_visits) = 3
    /\ \A i \in 1..Len(coffee_visits) : ~coffee_visits[i].is_free
    /\ \E e \in 1..Len(barcode_events) :
          barcode_events[e].event_type = "coffee_scanned"
    /\ \E e \in 1..Len(barcode_events) :
          barcode_events[e].event_type = "scanned"

\* the input without its leading and trailing blanks
Trimmed(raw) ==
    LET solid == {i \in 1..Len(raw) : raw[i] \notin Whitespace}
    IN  IF solid = {} THEN <<>>
        ELSE SubSeq(raw,
                    CHOOSE i \in solid : \A j \in solid : i <= j,
                    CHOOSE i \in solid : \A j \in solid : j <= i)

\* the clients whose stored barcode is exactly the trimmed input
OwnersOf(raw) == {id \in DOMAIN clients : clients[id].barcode = Trimmed(raw)}

\* C7: a scan whose trimmed input is no stored client's barcode (or is empty)
\* ends not-found/empty and writes nothing: visits and audit events are the
\* same before and after.
C7_Step ==
    \A raw \in RawInputs(SoloClients) :
        (/\ OwnersOf(raw) = {}
         /\ \/ scan_breakfast_by_barcode(raw, NoDate)
            \/ scan_coffee_by_barcode(raw, NoDate))
        => /\ response'.outcome \in {"not_found", "empty"}
           /\ response'.client_id = NoClient
           /\ breakfast_visits' = breakfast_visits
           /\ coffee_visits' = coffee_visits
           /\ barcode_events' = barcode_events
           /\ clients' = clients

C7_UnknownScanWritesNothing == [][C7_Step]_vars

\* an unknown code was scanned while a client, visits and an audit entry exist
C7_Witness ==
    /\ response.route = "scan_breakfast"
    /\ response.outcome = "not_found"
    /\ DOMAIN clients # {}
    /\ Len(breakfast_visits) > 0
    /\ Len(barcode_events) > 0

\* C8: a scan finds a client exactly when the trimmed input equals that
\* client's stored barcode; it then appends one visit of that client and one
\* 'scanned' audit entry of that client, and nothing else changes.
C8_Step ==
    \A raw \in RawInputs(MaxClients) :
        scan_breakfast_by_barcode(raw, NoDate) =>
            /\ response'.outcome \in {"free", "recorded"} <=> OwnersOf(raw) # {}
            /\ OwnersOf(raw) # {} =>
                  /\ OwnersOf(raw) = {response'.client_id}
                  /\ breakfast_visits' =
                        Append(breakfast_visits,
                               breakfast_visits'[Len(breakfast_visits')])
                  /\ breakfast_visits'[Len(breakfast_visits')].client_id
                        = response'.client_id
                  /\ barcode_events' =
                        Append(barcode_events,
                               [client_id |-> response'.client_id,
                                event_type |-> "scanned"])
                  /\ \A c \in ClientIdInputs(MaxClients) \ {response'.client_id} :
                        /\ RowsOf(breakfast_visits', c) = RowsOf(breakfast_visits, c)
                        /\ RowsOf(barcode_events', c) = RowsOf(barcode_events, c)
                  /\ clients' = clients
                  /\ coffee_visits' = coffee_visits

C8_ScanRecordsOneVisit == [][C8_Step]_vars

\* the second client was found by a scan after the first one got visits
C8_Witness ==
    /\ response.route = "scan_breakfast"
    /\ response.outcome = "recorded"
    /\ response.client_id = MaxClients
    /\ Len(breakfast_visits) > 1
    /\ breakfast_visits[1].client_id # response.client_id
    /\ barcode_events[Len(barcode_events)].client_id = response.client_id

\* the number a string of digits spells
RECURSIVE NumberOf(_)
NumberOf(s) ==
    IF s = <<>> THEN 0
    ELSE NumberOf(SubSeq(s, 1, Len(s) - 1)) * 10 + int(s[Len(s)])

\* the EAN-13 check digit of the first twelve digits of a code
CheckDigitOf(code) ==
    LET d(i) == int(code[i])
        S == d(1) + d(3) + d(5) + d(7) + d(9) + d(11)
             + 3 * (d(2) + d(4) + d(6) + d(8) + d(10) + d(12))
    IN  (10 - (S % 10)) % 10

\* C9: for 1 <= id <= 999999999, _build_barcode(id) is 13 characters: '290',
\* the id zero-padded to 9 digits, and the check digit; it is a valid EAN-13
\* code, and two different ids give two different codes.
C9_CodeOfId ==
    gen_codes # <<>> =>
        /\ \A k \in {1, 2} :
              (1 <= gen_ids[k] /\ gen_ids[k] <= NineDigitMax) =>
                  LET code == gen_codes[k]
                  IN  /\ Len(code) = EanLength
                      /\ isdigit(code)
                      /\ SubSeq(code, 1, 3) = <<"2", "9", "0">>
                      /\ NumberOf(SubSeq(code, 4, 12)) = gen_ids[k]
                      /\ int(code[EanLength]) = CheckDigitOf(code)
                      /\ _is_valid_ean13(code)
        /\ (/\ gen_ids[1] # gen_ids[2]
            /\ gen_ids[1] <= NineDigitMax
            /\ gen_ids[2] <= NineDigitMax) => gen_codes[1] # gen_codes[2]

\* codes were built for the largest 9-digit id and for id 1
C9_Witness ==
    /\ gen_codes # <<>>
    /\ gen_ids = <<NineDigitMax, 1>>
    /\ gen_codes[1] # gen_codes[2]

\* C10 (as claimed): for an id above 999999999 the generator fails: it returns
\* no code, and never a string longer than 13 characters.
C10_OversizedIdRejected ==
    gen_codes # <<>> =>
        \A k \in {1, 2} :
            gen_ids[k] > NineDigitMax =>
                /\ gen_codes[k] = NULL
                /\ Len(gen_codes[k]) <= EanLength

\* the string is 12 resp. 13 ASCII digits
IsPayload(s) == Len(s) = 12 /\ \A i \in 1..12 : s[i] \in DigitChars

IsDigitCode(s) == Len(s) = EanLength /\ \A i \in 1..EanLength : s[i] \in DigitChars

\* C14: for a 12-digit payload _ean13_checksum returns (10 - (S mod 10)) mod 10
\* with S = the digits at 0-indexed positions 0,2,..,10 plus three times the
\* digits at positions 1,3,..,11, and the result is a single digit 0..9.
C14_ChecksumFormula ==
    (ean_result.fn = "_ean13_checksum" /\ IsPayload(ean_input)) =>
        /\ ~ean_result.raised
        /\ ean_result.value = CheckDigitOf(ean_input)
        /\ ean_result.value \in 0..9

\* the checksum of a payload of alternating digits whose weighted sum is a
\* multiple of ten: the outer mod turns 10 into 0
C14_Witness ==
    /\ ean_result.fn = "_ean13_checksum"
    /\ IsPayload(ean_input)
    /\ ean_input[1] # ean_input[2]
    /\ ean_result.value = 0

\* C15: a payload followed by its checksum is valid, and the same payload
\* followed by any other digit is not.
C15_CheckDigitRoundTrip ==
    (ean_result.fn = "_is_valid_ean13" /\ IsDigitCode(ean_input)) =>
        LET p == SubSeq(ean_input, 1, 12)
            last == SubSeq(ean_input, EanLength, EanLength)
        IN  /\ ~ean_result.raised
            /\ last = DigitStr(_ean13_checksum(p)) => ean_result.value
            /\ last # DigitStr(_ean13_checksum(p)) => ~ean_result.value

\* a code whose check digit was replaced by the next digit was turned down
C15_Witness ==
    /\ ean_result.fn = "_is_valid_ean13"
    /\ IsDigitCode(ean_input)
    /\ int(ean_input[EanLength])
          = (_ean13_checksum(SubSeq(ean_input, 1, 12)) + 1) % 10
    /\ ~ean_result.value

\* C16 (as claimed): _is_valid_ean13 returns true exactly for strings of 13
\* ASCII digits whose 13th digit is the checksum of the first 12, returns false
\* for every other string, and never raises.
C16_ValidIffAsciiEan13 ==
    ean_result.fn = "_is_valid_ean13" =>
        /\ ~ean_result.raised
        /\ ean_result.value <=>
              (/\ IsDigitCode(ean_input)
               /\ CheckDigitOf(ean_input) = int(ean_input[EanLength]))

\* a string of "0"/"1" characters from a tuple of numbers
BitString(t) == [i \in 1..Len(t) |-> IF t[i] = 1 THEN "1" ELSE "0"]

\* 13 ASCII digits with the right check digit
IsValidCode(s) == IsDigitCode(s) /\ CheckDigitOf(s) = int(s[EanLength])

\* C17 (as claimed): the encoder and both renderers end in an error for every
\* code that is not valid, a 13-digit string with a wrong check digit included,
\* and return no bit pattern and no image for it.
C17_InvalidCodesRejected ==
    (render_out.fn # "none" /\ ~IsValidCode(render_code)) => render_out.raised

\* C18: for a valid code d0..d12 build_ean13_bits returns 95 bits: '101', the
\* six left digits each in its L- or G-code as position i-1 of the parity
\* pattern of d0 says, '01010' at bits 45..49, the six right digits in their
\* R-codes, and '101' at bits 92..94.
C18_BitLayout ==
    (render_out.fn = "build_ean13_bits" /\ IsValidCode(render_code)) =>
        /\ ~render_out.raised
        /\ LET bits == render_out.result
               d(i) == render_code[i + 1]
               bit(i) == bits[i + 1]
               segment(first) == SubSeq(bits, first + 1, first + 7)
           IN  /\ Len(bits) = 95
               /\ \A i \in 1..95 : bits[i] \in {"0", "1"}
               /\ <<bit(0), bit(1), bit(2)>> = BitString(<<1, 0, 1>>)
               /\ \A i \in 1..6 :
                     segment(3 + 7 * (i - 1)) =
                         IF parity[d(0)][i] = "L"
                         THEN l_codes[d(i)] ELSE g_codes[d(i)]
               /\ <<bit(45), bit(46), bit(47), bit(48), bit(49)>>
                     = BitString(<<0, 1, 0, 1, 0>>)
               /\ \A i \in 7..12 :
                     segment(50 + 7 * (i - 7)) = r_codes[d(i)]
               /\ <<bit(92), bit(93), bit(94)>> = BitString(<<1, 0, 1>>)

\* a valid code whose first digit selects a pattern with G-codes was encoded
C18_Witness ==
    /\ render_out.fn = "build_ean13_bits"
    /\ IsValidCode(render_code)
    /\ render_code[1] = "9"
    /\ ~render_out.raised
    /\ Len(render_out.result) = 95

\* C19: for a valid code the pixel grid of generate_barcode_png is
\* (95 + 2*quiet)*module wide and of the fixed height; the pixel at column x,
\* row y is black iff y lies in the bar band and the module floor(x/module) -
\* quiet is a bit index 0..94 whose bit is 1; every other pixel (quiet zones,
\* rows outside the band) is white, and every pixel is (0,0,0) or (255,255,255).
C19_PixelGrid ==
    (render_out.fn = "generate_barcode_png" /\ IsValidCode(render_code)) =>
        /\ ~render_out.raised
        /\ LET image == render_out.result
               bits == build_ean13_bits(render_code)
               width == (95 + 2 * png_quiet) * png_module
               pixel(x, y) == SubSeq(image.rows[y + 1], 3 * x + 2, 3 * x + 4)
               black(x, y) ==
                   LET m == (x \div png_module) - png_quiet
                   IN  /\ bar_top <= y
                       /\ y < bar_top + bar_height
                       /\ 0 <= m
                       /\ m < 95
                       /\ bits[m + 1] = "1"
           IN  /\ image.width = width
               /\ image.height = png_height
               /\ Len(image.rows) = png_height
               /\ \A y \in 0..(png_height - 1) :
                     /\ Len(image.rows[y + 1]) = 1 + 3 * width
                     /\ \A x \in 0..(width - 1) :
                           pixel(x, y) = IF black(x, y) THEN <<0, 0, 0>>
                                         ELSE <<255, 255, 255>>

\* an image was rendered: the first module of the start guard is black in the
\* first row of the band, the last column of the quiet zone is white
C19_Witness ==
    /\ render_out.fn = "generate_barcode_png"
    /\ IsValidCode(render_code)
    /\ ~render_out.raised
    /\ render_out.result.rows[bar_top + 1][3 * (png_quiet * png_module) + 2] = 0
    /\ render_out.result.rows[bar_top + 1][3 * (png_quiet * png_module - 1) + 2]
          = 255
    /\ render_out.result.rows[bar_top][3 * (png_quiet * png_module) + 2] = 255

\* C20: for a valid code generate_barcode_svg emits one bar rectangle for each
\* 1 bit of the 95-bit pattern and none for a 0 bit; the rectangle of bit i has
\* x = (quiet + i) * module, width = module and the full bar height; the
\* caption is the 13-digit code itself.
C20_SvgBars ==
    (render_out.fn = "generate_barcode_svg" /\ IsValidCode(render_code)) =>
        /\ ~render_out.raised
        /\ LET document == render_out.result
               bits == build_ean13_bits(render_code)
               ones == {i \in 0..94 : bits[i + 1] = "1"}
               bars == document.bars
           IN  /\ Len(bars) = Cardinality(ones)
               /\ \A i \in ones :
                     \E k \in 1..Len(bars) :
                         /\ bars[k].x = (svg_quiet + i) * svg_module
                         /\ bars[k].y = 0
                         /\ bars[k].width = svg_module
                         /\ bars[k].height = svg_height
               /\ \A k \in 1..Len(bars) :
                     \E i \in ones : bars[k].x = (svg_quiet + i) * svg_module
               /\ \A k \in 1..(Len(bars) - 1) : bars[k].x < bars[k + 1].x
               /\ document.text.content = render_code
               /\ IsDigitCode(document.text.content)

\* a document was rendered whose first bar stands right after the quiet zone
C20_Witness ==
    /\ render_out.fn = "generate_barcode_svg"
    /\ IsValidCode(render_code)
    /\ ~render_out.raised
    /\ Len(render_out.result.bars) > 3
    /\ render_out.result.bars[1].x = svg_quiet * svg_module
    /\ render_out.result.bars[2].x = (svg_quiet + 2) * svg_module

\* the stored barcode of a client as the repair pass reads it
StoredCode(table, id) ==
    IF table[id].barcode = NULL THEN <<>> ELSE table[id].barcode

\* C11: once add_client has returned for a client, the client's stored barcode
\* is _build_barcode(id) and no later request changes it: not a registration,
\* a scan, an audit entry, a Telegram link, another client added or deleted, or
\* init_database run again with its repair pass.
C11_Step ==
    /\ \A id \in DOMAIN clients :
          clients[id].barcode # NULL =>
              /\ clients[id].barcode = _build_barcode(id)
              /\ id \in DOMAIN clients' =>
                    clients'[id].barcode = clients[id].barcode
    /\ (response'.route = "add_client" /\ response'.outcome = "added")
          => /\ response'.client_id \in DOMAIN clients'
             /\ clients'[response'.client_id].barcode
                   = _build_barcode(response'.client_id)

C11_BarcodeImmutable == [][C11_Step]_vars

\* a client keeps its code after an earlier client was deleted, a visit and an
\* audit entry were recorded, its chat was linked and init_database ran again
C11_Witness ==
    /\ response.route = "init_database"
    /\ sqlite_sequence <= RepairClients
    /\ \E id \in DOMAIN clients :
          /\ clients[id].barcode = _build_barcode(id)
          /\ clients[id].telegram_chat_id # NoChat
          /\ \E gone \in 1..(id - 1) : gone \notin DOMAIN clients
    /\ Len(breakfast_visits) > 0
    /\ Len(barcode_events) > 0

\* C12: no two clients hold the same non-null barcode, so a lookup by barcode
\* has at most one candidate, after any sequence of add_client, delete_client
\* and repair passes; and none of them fails on a barcode collision.
C12_BarcodesUnique ==
    /\ \A a, b \in DOMAIN clients :
          (a # b /\ clients[a].barcode # NULL) =>
              clients[a].barcode # clients[b].barcode
    /\ \A id \in DOMAIN clients :
          clients[id].barcode # NULL =>
              /\ get_client_by_barcode(clients[id].barcode) = id
              /\ Cardinality({other \in DOMAIN clients :
                                 clients[other].barcode = clients[id].barcode})
                    = 1
    /\ response.outcome # "integrity_error"

\* two clients hold codes after an earlier client was deleted and a later one
\* added, one of them repaired by init_database
C12_Witness ==
    /\ Cardinality(DOMAIN clients) = 2
    /\ sqlite_sequence <= RepairClients
    /\ \A id \in DOMAIN clients : clients[id].barcode # NULL
    /\ \E gone \in 1..sqlite_sequence :
          /\ gone \notin DOMAIN clients
          /\ \E id \in DOMAIN clients : gone < id
    /\ response.route = "init_database"

\* C13 (as claimed): the repair pass of init_database rebuilds the code of
\* exactly the clients whose stored barcode is missing or not valid, as
\* _build_barcode(id), and leaves every client with a valid barcode untouched;
\* after the pass every client has a valid EAN-13 barcode, and a second pass
\* changes nothing.
C13_Step ==
    init_database =>
        /\ DOMAIN clients' = DOMAIN clients
        /\ \A id \in DOMAIN clients :
              IF _is_valid_ean13(StoredCode(clients, id))
              THEN clients'[id] = clients[id]
              ELSE /\ clients'[id].barcode = _build_barcode(id)
                   /\ clients'[id].telegram_chat_id = clients[id].telegram_chat_id
        /\ \A id \in DOMAIN clients' :
              _is_valid_ean13(StoredCode(clients', id))
        /\ repair_rows(clients, DOMAIN clients)'.table = clients'

C13_RepairPass == [][C13_Step]_vars

\* C21 (as claimed): deleting a client removes the client together with all
\* of its visits and barcode audit events: after delete_client(id) no row of
\* breakfast_visits or barcode_events with client_id = id remains.
C21_Step ==
    \A c \in DOMAIN clients :
        c \notin DOMAIN clients' =>
            /\ RowsOf(breakfast_visits', c) = 0
            /\ RowsOf(barcode_events', c) = 0

C21_DeleteCascades == [][C21_Step]_vars

\* C25 (as claimed): every stored visit refers to a client that existed when
\* the visit was inserted: a registration with a client id that matches no
\* client records no visit.
C25_Step ==
    Len(breakfast_visits') > Len(breakfast_visits) =>
        breakfast_visits'[Len(breakfast_visits')].client_id \in DOMAIN clients

C25_VisitsHaveClients == [][C25_Step]_vars

\* a code with every module inverted, and a code read from its last module
Complement(code) == [i \in 1..Len(code) |-> IF code[i] = "1" THEN "0" ELSE "1"]

Reverse(code) == [i \in 1..Len(code) |-> code[Len(code) + 1 - i]]

\* C22: the digit tables of build_ean13_bits are the standard EAN-13 tables:
\* each R-code is the complement of the L-code, each G-code is the R-code
\* reversed; L- and G-codes start with 0 and end with 1, R-codes start with 1
\* and end with 0; the 20 left-hand codes are pairwise distinct; the ten parity
\* patterns are pairwise distinct and all start with 'L'.
C22_StandardTables ==
    /\ DOMAIN l_codes = DigitChars
    /\ DOMAIN g_codes = DigitChars
    /\ DOMAIN r_codes = DigitChars
    /\ DOMAIN parity = DigitChars
    /\ \A d \in DigitChars :
          /\ Len(l_codes[d]) = 7
          /\ r_codes[d] = Complement(l_codes[d])
          /\ g_codes[d] = Reverse(r_codes[d])
          /\ l_codes[d][1] = "0" /\ l_codes[d][7] = "1"
          /\ g_codes[d][1] = "0" /\ g_codes[d][7] = "1"
          /\ r_codes[d][1] = "1" /\ r_codes[d][7] = "0"
          /\ Len(parity[d]) = 6
          /\ parity[d][1] = "L"
          /\ \A i \in 1..6 : parity[d][i] \in {"L", "G"}
    /\ Cardinality({l_codes[d] : d \in DigitChars}
                   \cup {g_codes[d] : d \in DigitChars}) = 20
    /\ Cardinality({parity[d] : d \in DigitChars}) = 10
    /\ render_out.fn = "build_ean13_bits" /\ ~render_out.raised =>
          \A i \in 8..13 :
              render_code[i] \in DigitChars =>
                  SubSeq(render_out.result, 51 + 7 * (i - 8), 57 + 7 * (i - 8))
                      = Complement(l_codes[render_code[i]])

\* a code was encoded whose second digit went out in its G-code, the reverse
\* of its R-code, and whose last digit went out as the complement of its L-code
C22_Witness ==
    /\ render_out.fn = "build_ean13_bits"
    /\ ~render_out.raised
    /\ render_code[1] = "5"
    /\ SubSeq(render_out.result, 11, 17) = Reverse(r_codes[render_code[3]])
    /\ SubSeq(render_out.result, 86, 92) = Complement(l_codes[render_code[13]])
    /\ render_code[3] # render_code[13]

\* C23: with requests handled one after another the statistics and the
\* registration rule agree: next_is_free of a client holds exactly when the
\* next add_breakfast_visit of that client returns is_free, and
\* visits_until_free = k means that of the client's next registrations the
\* k-th is the first one flagged free; the visit a registration stores carries
\* the flag the statistics announced before it.
C23_Step ==
    /\ \A c \in ClientIdInputs(MaxClients) :
          LET stats == get_client_breakfast_stats(c)
              n == get_breakfast_count_total(c)
              k == stats.visits_until_free
          IN  /\ stats.next_is_free <=> add_breakfast_visit_is_free(c)
              /\ stats.next_is_free <=> (k = 1)
              /\ k \in 1..FreeEvery
              /\ \A j \in 1..(k - 1) : ~visit_is_free(n + j - 1)
              /\ visit_is_free(n + k - 1)
    /\ Len(breakfast_visits') > Len(breakfast_visits) =>
          \E c \in ClientIdInputs(MaxClients) :
              LET row == breakfast_visits'[Len(breakfast_visits')]
                  before == get_client_breakfast_stats(c)
                  after == get_client_breakfast_stats(c)'
              IN  /\ row.client_id = c
                  /\ row.is_free <=> before.next_is_free
                  /\ after.visits_until_free =
                        IF before.visits_until_free = 1 THEN FreeEvery
                        ELSE before.visits_until_free - 1

C23_StatsAgreeWithRule == [][C23_Step]_vars

\* a client with six visits, announced as next-is-free with one visit to go,
\* while another client is in the middle of a cycle
C23_Witness ==
    \E c, d \in DOMAIN clients :
        /\ RowsOf(breakfast_visits, c) = FreeEvery - 1
        /\ get_client_breakfast_stats(c).next_is_free
        /\ get_client_breakfast_stats(c).visits_until_free = 1
        /\ RowsOf(breakfast_visits, d) \in 1..(FreeEvery - 2)
        /\ get_client_breakfast_stats(d).visits_until_free > 1

\* the rows of client c in insertion order, as positions of `table`
PositionsOf(table, c) == {i \in 1..Len(table) : table[i].client_id = c}

\* C24: with requests handled one after another, a client with N recorded
\* visits has exactly floor(N / 7) visits flagged free (the totals the history
\* screen prints), no two visits of a client inserted one after the other are
\* both free, and exactly six non-free visits of the client lie between two
\* successive free ones.
C24_FreeEverySeventh ==
    \A c \in ClientIdInputs(MaxClients) :
        LET mine == PositionsOf(breakfast_visits, c)
            free == {i \in mine : breakfast_visits[i].is_free}
            between(i, j) == {k \in mine : i < k /\ k < j}
        IN  /\ Cardinality(free) = Cardinality(mine) \div FreeEvery
            /\ c \in DOMAIN clients =>
                  /\ history_totals(c).total = Cardinality(mine)
                  /\ history_totals(c).free_count =
                        history_totals(c).total \div FreeEvery
            /\ \A i, j \in mine :
                  i < j /\ between(i, j) = {} =>
                      ~(breakfast_visits[i].is_free
                        /\ breakfast_visits[j].is_free)
            /\ \A i, j \in free :
                  i < j /\ between(i, j) \cap free = {} =>
                      Cardinality(between(i, j)) = FreeEvery - 1

\* a client reached fourteen visits, the seventh and the fourteenth free
C24_Witness ==
    \E c \in DOMAIN clients :
        LET mine == PositionsOf(breakfast_visits, c)
            free == {i \in mine : breakfast_visits[i].is_free}
        IN  /\ Cardinality(mine) = 2 * FreeEvery
            /\ Cardinality(free) = 2
            /\ history_totals(c).free_count = 2

\* client d was handed an id by this store and its row is gone
Deleted(d) == d \in HandedOut /\ d \notin DOMAIN clients

\* C26: a barcode is never transferred to another client.  Once client d is
\* deleted, d stays deleted: no client created later gets d's id or d's
\* barcode, the lookup a scan of d's barcode makes finds nobody and no scan is
\* ever attributed to d; a newly created client gets an id no client had
\* before, so none of the visits counted for it is a visit of a deleted client,
\* and it starts at zero when every stored visit names an id handed out before.
C26_Step ==
    /\ \A d \in IdWindow :
          Deleted(d) =>
              /\ d \notin DOMAIN clients'
              /\ \A n \in DOMAIN clients' :
                    clients'[n].barcode # _build_barcode(d)
              /\ get_client_by_barcode(_build_barcode(d)) = NoClient
              /\ response' # response /\ response'.route = "scan_breakfast" =>
                    response'.client_id # d
              /\ Len(barcode_events') > Len(barcode_events) =>
                    barcode_events'[Len(barcode_events')].client_id # d
    /\ \A n \in DOMAIN clients' \ DOMAIN clients :
          /\ n > sqlite_sequence
          /\ n \notin HandedOut
          /\ get_breakfast_count_total(n)' =
                Cardinality({i \in 1..Len(breakfast_visits) :
                                /\ breakfast_visits[i].client_id = n
                                /\ ~Deleted(breakfast_visits[i].client_id)})
          /\ (\A i \in 1..Len(breakfast_visits) :
                 breakfast_visits[i].client_id <= sqlite_sequence) =>
                get_breakfast_count_total(n)' = 0

C26_BarcodeNeverTransferred == [][C26_Step]_vars

\* a client with a stored visit was deleted, a client was created after it and
\* starts without visits, and a scan has just come back not-found
C26_Witness ==
    \E d \in IdWindow, n \in DOMAIN clients :
        /\ Deleted(d)
        /\ RowsOf(breakfast_visits, d) > 0
        /\ n > d
        /\ clients[n].barcode = _build_barcode(n)
        /\ get_breakfast_count_total(n) = 0
        /\ response.route = "scan_breakfast"
        /\ response.outcome = "not_found"

\* the codes that differ from `code` in exactly one position, by another digit
SingleDigitNeighbours(code) ==
    {[code EXCEPT ![pos] = d] :
        pos \in 1..Len(code), d \in DigitChars} \ {code}

\* C27: the checksum detects every single-digit error: a 13-digit code obtained
\* from a code _is_valid_ean13 accepts by replacing the digit at one of the
\* positions 0..12 with a different digit is not accepted.
C27_SingleDigitErrorDetected ==
    (/\ ean_result.fn = "_is_valid_ean13"
     /\ IsDigitCode(ean_input)
     /\ \E valid \in SingleDigitNeighbours(ean_input) : _is_valid_ean13(valid))
    => (~ean_result.raised /\ ~ean_result.value)

\* a code was turned down that differs from a valid one by 5 in a digit of
\* weight 3 (the weighted sum moved by 15)
C27_Witness ==
    /\ ean_result.fn = "_is_valid_ean13"
    /\ IsDigitCode(ean_input)
    /\ ~ean_result.value
    /\ \E pos \in {2, 4, 6, 8, 10, 12} :
          /\ _is_valid_ean13([ean_input EXCEPT
                 ![pos] = DIGITS[((int(ean_input[pos]) + 5) % 10) + 1]])
          /\ int(ean_input[pos]) # int(ean_input[1])

\* the audit entries of client c with the given event type
EventsOf(c, event_type) ==
    Cardinality({e \in 1..Len(barcode_events) :
                    /\ barcode_events[e].client_id = c
                    /\ barcode_events[e].event_type = event_type})

\* C28 (as claimed): recording the visit of a scan and logging it are
\* all-or-nothing: in every reachable state, also when the audit write fails or
\* the request ends after the visit was committed, a client has as many
\* 'scanned' audit entries as visits created by scans (here every visit is
\* created by a scan).
C28_ScanAllOrNothing ==
    \A c \in ClientIdInputs(SoloClients) :
        EventsOf(c, "scanned") = RowsOf(breakfast_visits, c)

\* C29 (as claimed): every client row a reader can find in the store has a
\* valid EAN-13 barcode: add_client never leaves a committed row whose barcode
\* is still missing, not between its two commits and not when it ends after the
\* first.
C29_NoClientWithoutBarcode ==
    \A c \in DOMAIN clients :
        /\ clients[c].barcode # NULL
        /\ _is_valid_ean13(clients[c].barcode)

\* the clients linked to a chat
LinkedTo(table, chat_id) ==
    {c \in DOMAIN table : table[c].telegram_chat_id = chat_id}

\* C30: /start is idempotent per chat.  Over /start deliveries handled one
\* after another (redeliveries after a failed outgoing call included) no chat
\* ever has more than one client, a delivery creates at most one client and
\* only for a chat that had none, and a delivery from a chat that has a client
\* creates nothing, links nothing and changes no barcode.
C30_Step ==
    /\ \A chat_id \in StartChats :
          /\ Cardinality(LinkedTo(clients, chat_id)) <= 1
          /\ Cardinality({e \in 1..Len(barcode_events) :
                 /\ barcode_events[e].event_type = "bot_linked"
                 /\ barcode_events[e].client_id \in LinkedTo(clients, chat_id)})
                <= 1
    /\ response'.route = "telegram_start" =>
          /\ Cardinality(DOMAIN clients' \ DOMAIN clients) <= 1
          /\ \A c \in DOMAIN clients :
                /\ c \in DOMAIN clients'
                /\ clients'[c].barcode = clients[c].barcode
          /\ \A chat_id \in StartChats :
                LinkedTo(clients, chat_id) # {} =>
                    LinkedTo(clients', chat_id) = LinkedTo(clients, chat_id)
          /\ \A n \in DOMAIN clients' \ DOMAIN clients :
                /\ clients'[n].telegram_chat_id \in StartChats
                /\ LinkedTo(clients, clients'[n].telegram_chat_id) = {}
                /\ LinkedTo(clients', clients'[n].telegram_chat_id) = {n}
          /\ (/\ response'.client_id \in DOMAIN clients
              /\ clients[response'.client_id].telegram_chat_id # NoChat) =>
                /\ clients' = clients
                /\ sqlite_sequence' = sqlite_sequence
                /\ barcode_events' = barcode_events

C30_StartIdempotent == [][C30_Step]_vars

\* one chat was linked to a client added by hand whose name matches up to
\* case, the other got a client of its own, and a redelivery has just been
\* answered with the card of the linked client
C30_Witness ==
    \E c, d \in DOMAIN clients :
        /\ clients[c].name = <<"A", "n", "n", "a">>
        /\ clients[c].telegram_chat_id \in StartChats
        /\ clients[d].name = <<"@", "b", "o", "b">>
        /\ clients[d].telegram_chat_id \in StartChats \ {clients[c].telegram_chat_id}
        /\ Len(barcode_events) = 2
        /\ response.route = "telegram_start"
        /\ response.outcome = "card_sent"

====
